---- MODULE Spec2Model ----
(***************************************************************************)
(* tsickle-loader: the webpack loader of src/index.ts as a state machine.  *)
(* One loader invocation (tsickleLoader) runs in a slot i \in Inv; the     *)
(* only state shared between invocations is the externs file on disk.      *)
(* Text (code, extern fragments, paths) is a sequence of tokens.           *)
(***************************************************************************)
EXTENDS Integers, Sequences, FiniteSets, TLC

VARIABLES
    inv,         \* inv[i]: the locals and the loader context of invocation slot i
    externFile,  \* content of <externDir>/externs.js
    initFile,    \* content of externs.js before the first invocation (history)
    history,     \* one record per appendFileSync call, in the order they happened
    calls        \* number of loader invocations started so far

vars == <<inv, externFile, initFile, history, calls>>

\* ---------------------------------------------------------------- bounds
NumInv == 2        \* loader invocation slots (parallel workers of the host)
MaxCalls == 2      \* loader invocations the host starts in one run
MaxFiles == 2      \* writeFile calls of one Tsickle.emit
MaxDiags == 2      \* pre-emit diagnostics of one program
MaxWarnings == 2   \* warnings one Tsickle.emit logs

Inv == 1..NumInv

\* ---------------------------------------------------------------- values
\* A value that is no text: output.externs[p] for a path p the map lacks.
Undefined == <<"undefined">>

\* ts.Diagnostic: a category and a code.
Diagnostic(category, code) == [category |-> category, code |-> code]

PreEmitDiagnostics == {Diagnostic("error", 2322), Diagnostic("warning", 6133)}

SeqsUpTo(S, n) == UNION {[1..k -> S] : k \in 0..n}

DiagnosticSets == SeqsUpTo(PreEmitDiagnostics, MaxDiags)

\* The warnings a transform pass logs: k distinct warnings, k <= MaxWarnings.
WarningSeqs == {[k \in 1..n |-> Diagnostic("warning", k)] : n \in 0..MaxWarnings}

\* resourcePath as the host passes it: a Windows-style and a unix-style path.
ResourcePaths == {<<"\\", "a", "ts">>, <<"/", "b", "ts">>}

\* Output-side paths a transform pass may write: the emitted path itself, the
\* same under an emit root, a relative one, and the one of another file.
JsKeys == {<<"/", "a", "js">>, <<"/", "o", "/", "a", "js">>, <<"a", "js">>,
           <<"/", "b", "js">>}

\* Text of the k-th writeFile call of a pass (odd ones carry a defect token).
Contents(k) == IF k % 2 = 1 THEN <<"d", ToString(k)>> ELSE <<ToString(k)>>

WriteSeqs ==
    {[k \in 1..Len(ks) |-> [path |-> ks[k], contents |-> Contents(k)]] :
        ks \in SeqsUpTo(JsKeys, MaxFiles)}


\* ---------------------------------------------------------------- path-utils, fix-output
\* tsToJS: swap a trailing source extension for the emission extension.
tsToJS(p) ==
    IF Len(p) > 0 /\ p[Len(p)] = "ts" THEN [p EXCEPT ![Len(p)] = "js"] ELSE p

\* jsToTS: swap a trailing emission extension for the source extension.
jsToTS(p) ==
    IF Len(p) > 0 /\ p[Len(p)] = "js" THEN [p EXCEPT ![Len(p)] = "ts"] ELSE p

IsDefect(c) == c = "d"

\* fixExtern / fixCode: rewrite out the defect tokens of the transform's text.
fixExtern(extern) == SelectSeq(extern, LAMBDA c : ~IsDefect(c))

fixCode(code) == SelectSeq(code, LAMBDA c : ~IsDefect(c))

\* A fixer call either yields its text or throws.
FixerOutcomes == {"ok", "throws"}

ExternPaths == {jsToTS(k) : k \in JsKeys}

\* The declaration fragment a pass emits for source-side path p (some carry a
\* defect token).
ExternText(p) ==
    CASE p = <<"/", "a", "ts">> -> <<"e">>
      [] p = <<"a", "ts">> -> <<"d", "f">>
      [] p = <<"/", "b", "ts">> -> <<"d", "g">>
      [] OTHER -> <<"h", "d">>

\* output.externs: at most one declaration fragment, under some source-side path.
ExternMaps ==
    {[p \in ExternPaths |-> Undefined]} \cup
    {[p \in ExternPaths |-> IF p = q THEN ExternText(q) ELSE Undefined] :
        q \in ExternPaths}

\* ---------------------------------------------------------------- helpers of the loader
\* formatDiagnosticsWithColorAndContext: one text rendering a whole diagnostic list.
Format(diagnostics) == [kind |-> "diagnostics", diags |-> diagnostics, file |-> <<>>]

\* Error(`missing compiled result for source file: ${sourceFileName}`)
MissingResult(sourceFileName) ==
    [kind |-> "missing", diags |-> <<>>, file |-> sourceFileName]

\* this.resourcePath.replace(/\\/g, "/")
Normalize(resourcePath) ==
    [k \in DOMAIN resourcePath |->
        IF resourcePath[k] = "\\" THEN "/" ELSE resourcePath[k]]

\* Mutant of the gate: an off-by-one test, diagnostics.length > 1.
HasSeveralDiagnostics(diagnostics) == Len(diagnostics) > 1

\* diagnostics.length > 0
HasDiagnostics(diagnostics) == Len(diagnostics) > 0

\* Mutant of handleDiagnostics: the type argument ignored, everything an error.
handleDiagnosticsAsError(ctx, diagnostics, type) ==
    [ctx EXCEPT !.errors = Append(@, Format(diagnostics))]

\* handleDiagnostics: one emitError, or one emitWarning, of the formatted list.
handleDiagnostics(ctx, diagnostics, type) ==
    IF type = "error"
    THEN [ctx EXCEPT !.errors = Append(@, Format(diagnostics))]
    ELSE [ctx EXCEPT !.warnings = Append(@, Format(diagnostics))]

\* tsickleHost.logWarning, called once per warning of the pass, in order.
RECURSIVE logWarnings(_, _)
logWarnings(ctx, logged) ==
    IF logged = <<>> THEN ctx
    ELSE logWarnings(handleDiagnostics(ctx, <<Head(logged)>>, "warning"), Tail(logged))

\* String.prototype.indexOf: the first 0-based position of p in s, or -1.
indexOf(s, p) ==
    LET at == {k \in 0..(Len(s) - Len(p)) : SubSeq(s, k + 1, k + Len(p)) = p}
    IN  IF at = {} THEN -1 ELSE CHOOSE k \in at : \A m \in at : k <= m

\* jsFiles.set(path, contents): a Map keeps a key's first insertion position.
writeFile(jsFiles, path, contents) ==
    IF \E k \in DOMAIN jsFiles : jsFiles[k].path = path
    THEN [k \in DOMAIN jsFiles |->
            IF jsFiles[k].path = path
            THEN [path |-> path, contents |-> contents] ELSE jsFiles[k]]
    ELSE Append(jsFiles, [path |-> path, contents |-> contents])

RECURSIVE writeAll(_, _)
writeAll(jsFiles, writes) ==
    IF writes = <<>> THEN jsFiles
    ELSE writeAll(writeFile(jsFiles, Head(writes).path, Head(writes).contents),
                  Tail(writes))

\* Mutant of the loop's test: the comparison with -1 inverted.
IsSkippedInverted(sourceFileAsJs, path) == indexOf(sourceFileAsJs, path) # -1

\* The loop's test: an entry is passed over when sourceFileAsJs.indexOf(path) === -1.
IsSkipped(sourceFileAsJs, path) == indexOf(sourceFileAsJs, path) = -1

\* for (const [path, source] of jsFiles): the first entry not passed over, or 0.
FirstTaken(jsFiles, sourceFileAsJs) ==
    LET taken == {k \in DOMAIN jsFiles : ~IsSkipped(sourceFileAsJs, jsFiles[k].path)}
    IN  IF taken = {} THEN 0 ELSE CHOOSE k \in taken : \A m \in taken : k <= m

\* output.externs[tsPathName]
ExternOf(externs, tsPathName) ==
    IF tsPathName \in DOMAIN externs THEN externs[tsPathName] ELSE Undefined

\* Mutants of the append: fs.writeFileSync in its place (the file is replaced),
\* and an append that leaves out a fragment the file already holds.
writeFileSync(file, data) == data

appendUnlessPresent(file, data) ==
    IF indexOf(file, data) # -1 THEN file ELSE file \o data

\* fs.appendFileSync(externFile, data)
appendFileSync(file, data) == file \o data

NoExterns == [p \in ExternPaths |-> Undefined]

Pending == [kind |-> "pending", text |-> <<>>]
ReturnsUndefined == [kind |-> "undefined", text |-> <<>>]
\* An exception leaving the loader, thrown by the named call.
Throws(by) == [kind |-> "throws", text |-> <<by>>]
Returns(text) == [kind |-> "text", text |-> text]

IdleInv ==
    [pc |-> "idle",
     ctx |-> [resourcePath |-> <<>>, errors |-> <<>>, warnings |-> <<>>],
     sourceFileName |-> <<>>, diagnostics |-> <<>>, emitCalls |-> 0,
     logged |-> <<>>, jsFiles |-> <<>>, externs |-> NoExterns,
     path |-> <<>>, source |-> <<>>, extern |-> Undefined,
     ret |-> Pending, fileAtStart |-> <<>>, call |-> 0]

Init ==
    /\ inv = [i \in Inv |-> IdleInv]
    /\ externFile \in {<<>>, <<"p">>}
    /\ initFile = externFile
    /\ history = <<>>
    /\ calls = 0

\* ---------------------------------------------------------------- tsickleLoader
\* Lines 101-122: setup, normalisation, createProgram, the diagnostics gate.
Loader(i, paths, diagSets) ==
    /\ inv[i].pc = "idle"
    /\ calls < MaxCalls
    /\ \E resourcePath \in paths, diagnostics \in diagSets :
         LET ctx == [resourcePath |-> resourcePath, errors |-> <<>>, warnings |-> <<>>]
             started == [IdleInv EXCEPT !.ctx = ctx,
                                        !.sourceFileName = Normalize(resourcePath),
                                        !.diagnostics = diagnostics,
                                        !.fileAtStart = externFile,
                                        !.call = calls + 1]
         IN  inv' = [inv EXCEPT ![i] =
                 IF HasDiagnostics(diagnostics)
                 THEN [started EXCEPT
                         !.ctx = handleDiagnostics(ctx, diagnostics, "error"),
                         !.ret = ReturnsUndefined,
                         !.pc = "done"]
                 ELSE [started EXCEPT !.pc = "emit"]]
    /\ calls' = calls + 1
    /\ UNCHANGED <<externFile, initFile, history>>

\* Lines 124-147: Tsickle.emit over the program; the pass writes files through
\* writeFile, logs warnings through logWarning and returns the externs map.
TsickleEmit(i, writeSeqs, externMaps, warningSeqs) ==
    /\ inv[i].pc = "emit"
    /\ \E writes \in writeSeqs, externs \in externMaps, logged \in warningSeqs :
         inv' = [inv EXCEPT ![i] =
             [@ EXCEPT !.jsFiles = writeAll(<<>>, writes),
                       !.externs = externs,
                       !.logged = logged,
                       !.ctx = logWarnings(@, logged),
                       !.emitCalls = @ + 1,
                       !.pc = "select"]]
    /\ UNCHANGED <<externFile, initFile, history, calls>>

\* Lines 149-157 and 167-169: the loop over jsFiles up to the extern lookup, or
\* the emitError after a loop that took no entry.
SelectOutput(i) ==
    /\ inv[i].pc = "select"
    /\ LET k == FirstTaken(inv[i].jsFiles, tsToJS(inv[i].sourceFileName))
       IN  inv' = [inv EXCEPT ![i] =
             IF k = 0
             THEN [@ EXCEPT !.ctx.errors =
                                Append(@, MissingResult(inv[i].sourceFileName)),
                            !.ret = ReturnsUndefined,
                            !.pc = "done"]
             ELSE LET path == inv[i].jsFiles[k].path
                      extern == ExternOf(inv[i].externs, jsToTS(path))
                  IN  [@ EXCEPT !.path = path,
                                !.source = inv[i].jsFiles[k].contents,
                                !.extern = extern,
                                !.pc = IF extern # Undefined THEN "append" ELSE "fix"]]
    /\ UNCHANGED <<externFile, initFile, history, calls>>

\* Line 159: fs.appendFileSync(externFile, fixExtern(extern)).
AppendExtern(i) ==
    /\ inv[i].pc = "append"
    /\ \E outcome \in FixerOutcomes :
         IF outcome = "ok"
         THEN /\ externFile' = appendFileSync(externFile, fixExtern(inv[i].extern))
              /\ history' = Append(history,
                     [call |-> inv[i].call, file |-> inv[i].sourceFileName,
                      fragment |-> fixExtern(inv[i].extern)])
              /\ inv' = [inv EXCEPT ![i].pc = "fix"]
         ELSE /\ inv' = [inv EXCEPT ![i].ret = Throws("fixExtern"), ![i].pc = "done"]
              /\ UNCHANGED <<externFile, history>>
    /\ UNCHANGED <<initFile, calls>>

\* Lines 162-164: const fixed = fixCode(source); return fixed.
FixCode(i) ==
    /\ inv[i].pc = "fix"
    /\ \E outcome \in FixerOutcomes :
         inv' = [inv EXCEPT
             ![i].ret = IF outcome = "ok" THEN Returns(fixCode(inv[i].source))
                        ELSE Throws("fixCode"),
             ![i].pc = "done"]
    /\ UNCHANGED <<externFile, initFile, history, calls>>

\* The host takes the invocation's result; the slot is free for the next file.
Collect(i) ==
    /\ inv[i].pc = "done"
    /\ inv' = [inv EXCEPT ![i] = IdleInv]
    /\ UNCHANGED <<externFile, initFile, history, calls>>

\* Back-to-back invocations: a host with one worker (slot 1) runs one
\* invocation to its end, takes the result, and starts the next.
Next ==
    \/ Loader(1, ResourcePaths, DiagnosticSets)
    \/ TsickleEmit(1, WriteSeqs, ExternMaps, WarningSeqs)
    \/ SelectOutput(1)
    \/ AppendExtern(1)
    \/ FixCode(1)
    \/ Collect(1)

Spec == Init /\ [][Next]_vars

\* Concurrent invocations: the host's workers run loader invocations in parallel
\* and their steps interleave; one appendFileSync call is one step.  The inputs
\* are a small family, so that all interleavings are explored.
ConcDiagnosticSets == {<<>>, <<Diagnostic("error", 2322)>>}

ConcWriteSeqs ==
    {<<[path |-> k, contents |-> Contents(1)]>> :
        k \in {<<"/", "a", "js">>, <<"/", "b", "js">>}}

ConcExternMaps ==
    {[p \in ExternPaths |-> IF p = q THEN ExternText(q) ELSE Undefined] :
        q \in {<<"/", "a", "ts">>, <<"/", "b", "ts">>}}

ConcWarningSeqs == {<<>>}

NextConc ==
    \E i \in Inv :
        \/ Loader(i, ResourcePaths, ConcDiagnosticSets)
        \/ TsickleEmit(i, ConcWriteSeqs, ConcExternMaps, ConcWarningSeqs)
        \/ SelectOutput(i)
        \/ AppendExtern(i)
        \/ FixCode(i)
        \/ Collect(i)

SpecConc == Init /\ [][NextConc]_vars

\* ---------------------------------------------------------------- properties
HasError(diagnostics) ==
    \E k \in DOMAIN diagnostics : diagnostics[k].category = "error"

IsPrefix(s, t) == Len(s) <= Len(t) /\ SubSeq(t, 1, Len(s)) = s

RECURSIVE Flatten(_)
Flatten(h) == IF h = <<>> THEN <<>> ELSE Head(h).fragment \o Flatten(Tail(h))

\* The history entries of invocation slot i's current call.
AppendsOf(i) == {k \in DOMAIN history : history[k].call = inv[i].call}

\* C1: an invocation whose pre-emit diagnostics hold an error-severity one ends
\* at the gate: emitError was called exactly once, with the formatting of the
\* whole diagnostic list, nothing is returned, Tsickle.emit was never called and
\* the externs file is as it was when the invocation began.
C1_ErrorDiagnosticsAbort ==
    \A i \in Inv :
        (inv[i].pc # "idle" /\ HasError(inv[i].diagnostics)) =>
            /\ inv[i].pc = "done"
            /\ inv[i].ctx.errors = <<Format(inv[i].diagnostics)>>
            /\ inv[i].ret = ReturnsUndefined
            /\ inv[i].emitCalls = 0
            /\ externFile = inv[i].fileAtStart

C1_Witness ==
    \E i \in Inv :
        /\ inv[i].pc = "done"
        /\ HasError(inv[i].diagnostics)
        /\ Len(inv[i].diagnostics) = 2
        /\ inv[i].diagnostics[1].category = "warning"
        /\ inv[i].fileAtStart # <<>>

\* C2: an invocation whose program has no error-severity diagnostic returns
\* non-empty corrected code text and never calls emitError, whatever output map
\* the transform produced.
C2_NoErrorsReturnsCode ==
    \A i \in Inv :
        (inv[i].pc = "done" /\ ~HasError(inv[i].diagnostics)) =>
            /\ inv[i].ret.kind = "text"
            /\ inv[i].ret.text # <<>>
            /\ inv[i].ctx.errors = <<>>

\* C3: pre-emit diagnostics that are all warnings do not abort: no emitError is
\* called for them and the invocation goes on to the transform.
C3_WarningsOnlyProceed ==
    \A i \in Inv :
        (/\ inv[i].pc # "idle"
         /\ inv[i].diagnostics # <<>>
         /\ ~HasError(inv[i].diagnostics)) =>
            /\ \A k \in DOMAIN inv[i].ctx.errors :
                   inv[i].ctx.errors[k].kind # "diagnostics"
            /\ inv[i].pc = "done" => inv[i].emitCalls = 1

\* C4: with E = tsToJS(sourceFileName), the entry consumed is the first entry of
\* the output map, in insertion order, whose key contains E as a substring (none
\* is consumed when no key contains E), and the text returned is fixCode of
\* that entry's text.
C4_SelectsKeyContainingExpected ==
    \A i \in Inv :
        (inv[i].pc \in {"append", "fix", "done"} /\ inv[i].emitCalls = 1) =>
            LET E == tsToJS(inv[i].sourceFileName)
                m == {k \in DOMAIN inv[i].jsFiles :
                         indexOf(inv[i].jsFiles[k].path, E) # -1}
            IN  IF m = {}
                THEN inv[i].ctx.errors = <<MissingResult(inv[i].sourceFileName)>>
                ELSE LET k == CHOOSE k \in m : \A n \in m : k <= n
                     IN  /\ inv[i].path = inv[i].jsFiles[k].path
                         /\ inv[i].source = inv[i].jsFiles[k].contents
                         /\ inv[i].ret.kind = "text" =>
                                inv[i].ret.text = fixCode(inv[i].jsFiles[k].contents)

C6_TargetFragmentAppended ==
    \A i \in Inv :
        (inv[i].pc = "done" /\ inv[i].ret.kind = "text") =>
            LET fragment == ExternOf(inv[i].externs, inv[i].sourceFileName)
            IN  IF fragment # Undefined
                THEN externFile = inv[i].fileAtStart \o fixExtern(fragment)
                ELSE externFile = inv[i].fileAtStart

\* An invocation in slot i that got past its appendFileSync call.
HasAppended(i) ==
    /\ inv[i].extern # Undefined
    /\ \/ inv[i].pc = "fix"
       \/ inv[i].pc = "done" /\ inv[i].ret # Throws("fixExtern")

\* C7: under any interleaving of concurrent invocations, with each
\* appendFileSync call atomic: every invocation makes at most one append; the
\* file is its initial content followed by the appended fragments, each whole
\* and contiguous, none lost or overwritten; and the fragment of an invocation
\* is fixExtern of the extern it looked up, whatever the interleaving.
C7_ConcurrentAppendsKept ==
    /\ externFile = initFile \o Flatten(history)
    /\ \A c \in 1..calls :
           Cardinality({k \in DOMAIN history : history[k].call = c}) <= 1
    /\ \A i \in Inv :
           /\ HasAppended(i) =>
                  \E k \in AppendsOf(i) :
                      history[k].fragment = fixExtern(inv[i].extern)
           /\ (inv[i].pc # "idle" /\ ~HasAppended(i)) => AppendsOf(i) = {}

\* Two invocations under way at once, having appended in the reverse of the
\* order in which they were started.
C7_Witness ==
    /\ Len(history) = 2
    /\ history[1].call = 2
    /\ history[2].call = 1
    /\ history[1].fragment # history[2].fragment
    /\ \A i \in {1, 2} : inv[i].pc = "fix"

\* C8: across back-to-back invocations the externs file is append-only: every
\* step leaves its old content a prefix of the new one (no truncation, rewrite
\* or deduplication), and the fragments appear in it in call order.
C8_AppendOnlyInCallOrder ==
    /\ [][IsPrefix(externFile, externFile')]_vars
    /\ [](/\ externFile = initFile \o Flatten(history)
          /\ \A k, m \in DOMAIN history :
                 k < m => history[k].call < history[m].call)

\* The same file processed twice, both calls appending the same fragment.
C8_Witness ==
    /\ Len(history) = 2
    /\ history[1].file = history[2].file
    /\ history[1].fragment = history[2].fragment
    /\ initFile # <<>>
    /\ externFile = initFile \o history[1].fragment \o history[2].fragment

\* C9: output is all-or-nothing: an invocation that does not return code text
\* (it ended in emitError, or a fixer threw) has appended nothing to the externs
\* file.
C9_AllOrNothing ==
    \A i \in Inv :
        (inv[i].pc = "done" /\ inv[i].ret.kind # "text") =>
            /\ AppendsOf(i) = {}
            /\ externFile = inv[i].fileAtStart

\* C10: each warning the transform logs causes exactly one emitWarning call, in
\* the order logged, and never an emitError; the warnings do not halt the
\* invocation, which goes on to output selection and ends as the output map
\* alone decides.
C10_WarningsForwarded ==
    \A i \in Inv :
        /\ inv[i].emitCalls = 0 => inv[i].ctx.warnings = <<>>
        /\ inv[i].emitCalls = 1 =>
            /\ inv[i].ctx.warnings =
                   [k \in 1..Len(inv[i].logged) |-> Format(<<inv[i].logged[k]>>)]
            /\ inv[i].pc \in {"select", "append", "fix", "done"}
            /\ inv[i].pc = "select" => inv[i].ctx.errors = <<>>
            /\ inv[i].pc = "done" =>
                   IF \A k \in DOMAIN inv[i].jsFiles :
                          indexOf(tsToJS(inv[i].sourceFileName),
                                  inv[i].jsFiles[k].path) = -1
                   THEN /\ inv[i].ctx.errors =
                               <<MissingResult(inv[i].sourceFileName)>>
                        /\ inv[i].ret = ReturnsUndefined
                   ELSE /\ inv[i].ctx.errors = <<>>
                        /\ inv[i].ret.kind \in {"text", "throws"}

C10_Witness ==
    \E i \in Inv :
        /\ inv[i].pc = "done"
        /\ Len(inv[i].logged) = 2
        /\ Len(inv[i].ctx.warnings) = 2
        /\ inv[i].ctx.warnings[1] # inv[i].ctx.warnings[2]
        /\ inv[i].ret.kind = "text"
====
